---- MODULE Spec2Model ----
(***************************************************************************)
(* check_server_status (archive/my-agent-project/src/tools/steam_tools.py) *)
(* as a state machine.  One process per caller runs the function's body:   *)
(* build the servers table and a fresh status dict, then for each server   *)
(* in turn call socket.create_connection with timeout=1, record "UP"       *)
(* inside the with block (the socket is closed on leaving the block) or    *)
(* "DOWN" in the except clause, and return the dict.                       *)
(*                                                                         *)
(* Dicts are heap objects: status and the report a caller holds from its   *)
(* previous call are references, so aliasing between calls and between     *)
(* callers is something the model can express.  The network is the         *)
(* environment: every create_connection draws one of the outcomes the      *)
(* socket library can produce.  Closing a connected socket is taken to     *)
(* succeed.                                                                *)
(***************************************************************************)
EXTENDS Integers, Sequences, FiniteSets, TLC

VARIABLES
    pc,        \* per caller: position in check_server_status / in the caller
    idx,       \* per caller: position of the for loop in servers.items()
    status,    \* per caller: reference held by the local variable status
    held,      \* per caller: reference to the report of its previous call
    heap,      \* dict objects: reference -> mapping
    conns,     \* per caller: names whose socket is currently open
    exc,       \* per caller: class of the exception in flight
    seen,      \* per caller: outcome create_connection gave per name (this call)
    attempts,  \* per caller: names create_connection was called for (this call)
    elapsed,   \* per caller: timeout periods spent blocked in this call
    budget,    \* per caller: calls it will still make
    muts       \* mutations callers applied to reports they hold

vars == <<pc, idx, status, held, heap, conns, exc, seen, attempts, elapsed,
          budget, muts>>

(***************************************************************************)
(* Bounds of the model.                                                    *)
(***************************************************************************)
MaxCalls == 2
MaxMutations == 1

Callers == {"c1", "c2"}

(***************************************************************************)
(* The servers table, in the insertion order a dict iterates in.           *)
(***************************************************************************)
serversShort == << [name |-> "frontend", host |-> "localhost", port |-> 3002],
                   [name |-> "backend",  host |-> "localhost", port |-> 3001] >>

servers == << [name |-> "frontend", host |-> "localhost", port |-> 3002],
              [name |-> "backend",  host |-> "localhost", port |-> 3001],
              [name |-> "redis",    host |-> "localhost", port |-> 6379] >>

NameOf(k) == servers[k].name

Names == {NameOf(k) : k \in 1..Len(servers)}

(***************************************************************************)
(* timeout=1 of create_connection, in seconds.  One create_connection call *)
(* is one connection attempt, over when it connects, fails or the timeout  *)
(* expires.                                                                *)
(***************************************************************************)
timeoutLong == 1 + 1

timeout == 1

(***************************************************************************)
(* What socket.create_connection can do: return a connected socket, or     *)
(* raise.  The exception classes and their base classes.                   *)
(***************************************************************************)
Outcomes == {"connected", "timed_out", "refused", "unreachable", "dns_failure"}

Failures == Outcomes \ {"connected"}

Raised(outcome) ==
    CASE outcome = "timed_out"   -> "socket.timeout"
      [] outcome = "refused"     -> "ConnectionRefusedError"
      [] outcome = "dns_failure" -> "socket.gaierror"
      [] outcome = "unreachable" -> "OSError"

Base(cls) ==
    CASE cls = "socket.timeout"         -> "OSError"
      [] cls = "ConnectionRefusedError" -> "ConnectionError"
      [] cls = "ConnectionError"        -> "OSError"
      [] cls = "socket.gaierror"        -> "OSError"
      [] cls = "OSError"                -> "Exception"
      [] cls = "Exception"              -> "BaseException"
      [] OTHER                          -> "object"

RECURSIVE IsSubclass(_, _)
IsSubclass(cls, of) ==
    IF cls = of THEN TRUE
    ELSE IF cls = "object" THEN FALSE
    ELSE IsSubclass(Base(cls), of)

\* how long one create_connection blocks: a timeout takes the whole period,
\* every other outcome arrives before it expires
Blocked(outcome) == IF outcome = "timed_out" THEN timeout ELSE 0

(***************************************************************************)
(* The except clause of line 23.                                           *)
(***************************************************************************)
ExceptClassesNarrow == {"socket.timeout", "ConnectionRefusedError"}

ExceptClasses == {"socket.timeout", "ConnectionRefusedError", "OSError"}

Caught(cls) == \E h \in ExceptClasses : IsSubclass(cls, h)

(***************************************************************************)
(* Dicts.                                                                  *)
(***************************************************************************)
None == 0

Refs == 1..(2 * Cardinality(Callers))

EmptyDict == [k \in {} |-> "UP"]

SetItem(d, k, v) == [x \in DOMAIN d \cup {k} |-> IF x = k THEN v ELSE d[x]]

DelItem(d, k) == [x \in DOMAIN d \ {k} |-> d[x]]

\* references some variable still holds, given the status and held maps
Live(st, hd) == ({st[c] : c \in Callers} \cup {hd[c] : c \in Callers}) \ {None}

\* objects nothing refers to are collected
Collect(hp, st, hd) ==
    [r \in Refs |-> IF r \in Live(st, hd) THEN hp[r] ELSE EmptyDict]

\* status = {} : a new object, referred to by nothing else
NewDictShared(c) == 1

NewDictReused(c) == IF held[c] # None THEN held[c] ELSE 1

NewDict(c) == CHOOSE r \in Refs \ Live(status, held) :
                 \A q \in Refs \ Live(status, held) : r <= q

\* status[name] = "UP" (line 22)
OnConnectedDown(d, name) == SetItem(d, name, "DOWN")

OnConnected(d, name) == SetItem(d, name, "UP")

\* status[name] = "DOWN" (line 24)
OnErrorKind(d, name, cls) ==
    SetItem(d, name, IF cls = "socket.timeout" THEN "TIMEOUT" ELSE "DOWN")

OnErrorText(d, name, cls) == SetItem(d, name, cls)

OnError(d, name, cls) == SetItem(d, name, "DOWN")

\* leaving the with block closes the socket
ExitWithLeak(open, name) == open

ExitWith(open, name) == open \ {name}

\* the for loop moves on to the next item
NextItemRetry(c) ==
    IF exc[c] # "none" /\ Len(attempts[c]) < idx[c] + 1 THEN idx[c] ELSE idx[c] + 1

NextItem(c) == idx[c] + 1

(***************************************************************************)
(* Initial state: no call made yet.  Start is everything but the calls the *)
(* callers are going to make.                                              *)
(***************************************************************************)
NoneSeen == [n \in Names |-> "none"]

Start ==
    /\ pc = [c \in Callers |-> "idle"]
    /\ idx = [c \in Callers |-> 0]
    /\ status = [c \in Callers |-> None]
    /\ held = [c \in Callers |-> None]
    /\ heap = [r \in Refs |-> EmptyDict]
    /\ conns = [c \in Callers |-> {}]
    /\ exc = [c \in Callers |-> "none"]
    /\ seen = [c \in Callers |-> NoneSeen]
    /\ attempts = [c \in Callers |-> << >>]
    /\ elapsed = [c \in Callers |-> 0]
    /\ muts = 0

(***************************************************************************)
(* Lines 11-17: entering the function builds servers and status = {}.      *)
(***************************************************************************)
Call(c) ==
    /\ pc[c] = "idle"
    /\ budget[c] > 0
    /\ LET r == NewDict(c) IN
         /\ status' = [status EXCEPT ![c] = r]
         /\ heap' = [heap EXCEPT ![r] = EmptyDict]
    /\ pc' = [pc EXCEPT ![c] = "for"]
    /\ idx' = [idx EXCEPT ![c] = 1]
    /\ seen' = [seen EXCEPT ![c] = NoneSeen]
    /\ attempts' = [attempts EXCEPT ![c] = << >>]
    /\ elapsed' = [elapsed EXCEPT ![c] = 0]
    /\ exc' = [exc EXCEPT ![c] = "none"]
    /\ budget' = [budget EXCEPT ![c] = @ - 1]
    /\ UNCHANGED <<held, conns, muts>>

(***************************************************************************)
(* Lines 19-21: the next item of servers, and create_connection for it.    *)
(***************************************************************************)
Connect(c) ==
    /\ pc[c] = "for"
    /\ idx[c] <= Len(servers)
    /\ \E outcome \in Outcomes :
         LET name == NameOf(idx[c]) IN
         /\ seen' = [seen EXCEPT ![c][name] = outcome]
         /\ attempts' = [attempts EXCEPT ![c] = Append(@, name)]
         /\ elapsed' = [elapsed EXCEPT ![c] = @ + Blocked(outcome)]
         /\ IF outcome = "connected"
              THEN /\ conns' = [conns EXCEPT ![c] = @ \cup {name}]
                   /\ pc' = [pc EXCEPT ![c] = "with"]
                   /\ exc' = exc
              ELSE /\ conns' = conns
                   /\ pc' = [pc EXCEPT ![c] = "except"]
                   /\ exc' = [exc EXCEPT ![c] = Raised(outcome)]
    /\ UNCHANGED <<idx, status, held, heap, budget, muts>>

(***************************************************************************)
(* Line 22: the body of the with block.                                    *)
(***************************************************************************)
Body(c) ==
    /\ pc[c] = "with"
    /\ heap' = [heap EXCEPT ![status[c]] = OnConnected(@, NameOf(idx[c]))]
    /\ pc' = [pc EXCEPT ![c] = "exit"]
    /\ UNCHANGED <<idx, status, held, conns, exc, seen, attempts, elapsed,
                   budget, muts>>

(***************************************************************************)
(* Leaving the with block: the socket is closed, the loop goes on.         *)
(***************************************************************************)
Exit(c) ==
    /\ pc[c] = "exit"
    /\ conns' = [conns EXCEPT ![c] = ExitWith(@, NameOf(idx[c]))]
    /\ idx' = [idx EXCEPT ![c] = NextItem(c)]
    /\ pc' = [pc EXCEPT ![c] = "for"]
    /\ UNCHANGED <<status, held, heap, exc, seen, attempts, elapsed, budget, muts>>

(***************************************************************************)
(* Lines 23-24: the except clause; an exception it does not name leaves    *)
(* the function.                                                           *)
(***************************************************************************)
Handle(c) ==
    /\ pc[c] = "except"
    /\ IF Caught(exc[c])
         THEN /\ heap' = [heap EXCEPT
                            ![status[c]] = OnError(@, NameOf(idx[c]), exc[c])]
              /\ idx' = [idx EXCEPT ![c] = NextItem(c)]
              /\ exc' = [exc EXCEPT ![c] = "none"]
              /\ pc' = [pc EXCEPT ![c] = "for"]
         ELSE /\ pc' = [pc EXCEPT ![c] = "raised"]
              /\ UNCHANGED <<heap, idx, exc>>
    /\ UNCHANGED <<status, held, conns, seen, attempts, elapsed, budget, muts>>

(***************************************************************************)
(* Line 26: return status, once servers is exhausted.                      *)
(***************************************************************************)
Return(c) ==
    /\ pc[c] = "for"
    /\ idx[c] > Len(servers)
    /\ pc' = [pc EXCEPT ![c] = "returned"]
    /\ UNCHANGED <<idx, status, held, heap, conns, exc, seen, attempts, elapsed,
                   budget, muts>>

(***************************************************************************)
(* The caller (test_status, line 6): status = check_server_status().  The  *)
(* caller's variable now refers to the new report, the old one is dropped  *)
(* and the frame of the call is gone.                                      *)
(***************************************************************************)
Receive(c) ==
    /\ pc[c] = "returned"
    /\ held' = [held EXCEPT ![c] = status[c]]
    /\ status' = [status EXCEPT ![c] = None]
    /\ heap' = Collect(heap, status', held')
    /\ pc' = [pc EXCEPT ![c] = "idle"]
    /\ idx' = [idx EXCEPT ![c] = 0]
    /\ seen' = [seen EXCEPT ![c] = NoneSeen]
    /\ attempts' = [attempts EXCEPT ![c] = << >>]
    /\ elapsed' = [elapsed EXCEPT ![c] = 0]
    /\ UNCHANGED <<conns, exc, budget, muts>>

(***************************************************************************)
(* The caller owns the dict it was given and may change it.                *)
(***************************************************************************)
Mutate(c) ==
    /\ pc[c] = "idle"
    /\ held[c] # None
    /\ muts < MaxMutations
    /\ \E k \in Names \cup {"extra"} :
         \/ heap' = [heap EXCEPT ![held[c]] = SetItem(@, k, "junk")]
         \/ /\ k \in DOMAIN heap[held[c]]
            /\ heap' = [heap EXCEPT ![held[c]] = DelItem(@, k)]
    /\ muts' = muts + 1
    /\ UNCHANGED <<pc, idx, status, held, conns, exc, seen, attempts, elapsed, budget>>

Step(c) == Connect(c) \/ Body(c) \/ Exit(c) \/ Handle(c) \/ Return(c)

Next ==
    \E c \in Callers :
        \/ Call(c)
        \/ Connect(c)
        \/ Body(c)
        \/ Exit(c)
        \/ Handle(c)
        \/ Return(c)
        \/ Receive(c)
        \/ Mutate(c)

\* one caller calling again and again (test_status run repeatedly)
Init == Start /\ budget = [c \in Callers |-> IF c = "c1" THEN MaxCalls ELSE 0]

\* two callers, one call each, at the same time
ConcInit == Start /\ budget = [c \in Callers |-> 1]

Spec == Init /\ [][Next]_vars

ConcSpec == ConcInit /\ [][Next]_vars

\* a thread inside the function keeps running: each create_connection ends
\* within its timeout and nothing else blocks
FairSpec == Spec /\ \A c \in Callers : WF_vars(Step(c))

(***************************************************************************)
(* What the properties below talk about.                                   *)
(***************************************************************************)
Report(c) == heap[status[c]]

InCall(c) == pc[c] \in {"for", "with", "exit", "except"}

Order == <<"frontend", "backend", "redis">>

\* the report a call should give for the outcomes its probes met
Expected(c) ==
    [n \in {"frontend", "backend", "redis"} |->
        IF seen[c][n] = "connected" THEN "UP" ELSE "DOWN"]

(***************************************************************************)
(* C1: the report a call returns has exactly the keys frontend, backend    *)
(* and redis, whatever the probes met.                                     *)
(***************************************************************************)
C1_ExactKeys ==
    \A c \in Callers :
        pc[c] = "returned" => DOMAIN Report(c) = {"frontend", "backend", "redis"}

C1_Witness ==
    \E c \in Callers :
        /\ pc[c] = "returned"
        /\ seen[c]["frontend"] = "refused"
        /\ seen[c]["backend"] = "timed_out"
        /\ seen[c]["redis"] = "connected"
        /\ "frontend" \in DOMAIN Report(c)

(***************************************************************************)
(* C2: at every moment of a call, and in the report it returns, every      *)
(* value in status is "UP" or "DOWN".                                      *)
(***************************************************************************)
C2_OnlyUpDown ==
    \A c \in Callers :
        status[c] # None =>
            \A n \in DOMAIN Report(c) : Report(c)[n] \in {"UP", "DOWN"}

C2_Witness ==
    \E c \in Callers :
        /\ pc[c] = "returned"
        /\ \E n \in DOMAIN Report(c) : Report(c)[n] = "UP"
        /\ \E n \in DOMAIN Report(c) : Report(c)[n] = "DOWN"
        /\ \E n \in Names : seen[c][n] = "dns_failure"

(***************************************************************************)
(* C3: a target whose connection attempt succeeded is reported UP,         *)
(* whatever happened to the other targets.                                 *)
(***************************************************************************)
C3_ConnectedIsUp ==
    \A c \in Callers : \A n \in Names :
        (pc[c] = "returned" /\ seen[c][n] = "connected") =>
            (n \in DOMAIN Report(c) /\ Report(c)[n] = "UP")

C3_Witness ==
    \E c \in Callers :
        /\ pc[c] = "returned"
        /\ seen[c]["frontend"] \in Failures
        /\ seen[c]["backend"] = "connected"
        /\ seen[c]["redis"] \in Failures
        /\ Report(c) = [n \in Names |-> IF n = "backend" THEN "UP" ELSE "DOWN"]

(***************************************************************************)
(* C4: every kind of connection failure gives DOWN, and two calls whose    *)
(* probes differ only in the kind of failure return the same report.       *)
(***************************************************************************)
C4_FailuresAlike ==
    /\ \A c \in Callers : \A n \in Names :
          (pc[c] = "returned" /\ seen[c][n] \in Failures) =>
              (n \in DOMAIN Report(c) /\ Report(c)[n] = "DOWN")
    /\ \A c \in Callers : \A d \in Callers :
          ( /\ pc[c] = "returned"
            /\ pc[d] = "returned"
            /\ \A n \in Names :
                 (seen[c][n] = "connected") <=> (seen[d][n] = "connected") )
          => Report(c) = Report(d)

C4_Witness ==
    /\ pc["c1"] = "returned"
    /\ pc["c2"] = "returned"
    /\ seen["c1"] = [n \in Names |-> CASE n = "frontend" -> "timed_out"
                                       [] n = "backend"  -> "dns_failure"
                                       [] OTHER          -> "connected"]
    /\ seen["c2"] = [n \in Names |-> CASE n = "frontend" -> "refused"
                                       [] n = "backend"  -> "unreachable"
                                       [] OTHER          -> "connected"]
    /\ Report("c1") = Report("c2")

(***************************************************************************)
(* C5: no exception create_connection raises leaves the function: the      *)
(* except clause catches whatever is in flight, and the call never ends    *)
(* by raising.                                                             *)
(***************************************************************************)
C5_NeverRaises ==
    \A c \in Callers :
        /\ pc[c] # "raised"
        /\ pc[c] = "except" => Caught(exc[c])

C5_Witness ==
    \E c \in Callers :
        /\ pc[c] = "returned"
        /\ seen[c]["frontend"] = "unreachable"
        /\ seen[c]["backend"] = "dns_failure"
        /\ seen[c]["redis"] = "timed_out"

C7_FreshEachCall ==
    /\ [](\A c \in Callers :
             pc[c] = "returned" =>
                 /\ Report(c) = Expected(c)
                 /\ status[c] # held[c])
    /\ [][\A c \in Callers :
             (held[c] # None /\ pc'[c] # "idle") =>
                 (held'[c] = held[c] /\ heap'[held[c]] = heap[held[c]])]_vars

C7_Witness ==
    \E c \in Callers :
        /\ pc[c] = "returned"
        /\ held[c] # None
        /\ "extra" \in DOMAIN heap[held[c]]
        /\ \E n \in Names :
             /\ n \in DOMAIN heap[held[c]]
             /\ heap[held[c]][n] = "UP"
             /\ Report(c)[n] = "DOWN"
        /\ \E n \in Names :
             /\ n \in DOMAIN heap[held[c]]
             /\ heap[held[c]][n] = "DOWN"
             /\ Report(c)[n] = "UP"

(***************************************************************************)
(* C8: with two callers inside the function at once, a step of one caller  *)
(* never changes the status dict of the other, and each caller's report is *)
(* the one its own probes determine, with exactly the three keys.          *)
(***************************************************************************)
C8_CallersIndependent ==
    /\ [](\A c \in Callers :
             pc[c] = "returned" =>
                 /\ DOMAIN Report(c) = {"frontend", "backend", "redis"}
                 /\ \A n \in Names :
                      Report(c)[n] = "UP" <=> seen[c][n] = "connected")
    /\ [][\A c \in Callers :
             (status[c] # None /\ pc'[c] = pc[c]) =>
                 (status'[c] = status[c] /\ heap'[status[c]] = heap[status[c]])]_vars

C8_Witness ==
    /\ pc["c1"] = "exit"
    /\ pc["c2"] = "except"
    /\ idx["c1"] = 3
    /\ idx["c2"] = 3
    /\ Report("c1") = [n \in Names |-> "UP"]
    /\ Report("c2") = [n \in {"frontend", "backend"} |-> "DOWN"]

(***************************************************************************)
(* C9: one attempt per target, in the order frontend, backend, redis; an   *)
(* attempt starts only when every earlier target has its status; nothing   *)
(* is retried or skipped; a recorded status is not changed later in the    *)
(* call.                                                                   *)
(***************************************************************************)
C9_OneAttemptEachInOrder ==
    /\ [](\A c \in Callers :
             /\ Len(attempts[c]) <= Len(Order)
             /\ \A k \in 1..Len(attempts[c]) : attempts[c][k] = Order[k]
             /\ pc[c] = "returned" => attempts[c] = Order
             /\ pc[c] = "for" =>
                   DOMAIN Report(c) = {attempts[c][k] : k \in 1..Len(attempts[c])}
             /\ pc[c] \in {"with", "except"} =>
                   DOMAIN Report(c) =
                       {attempts[c][k] : k \in 1..(Len(attempts[c]) - 1)})
    /\ [][\A c \in Callers :
             (status[c] # None /\ status'[c] = status[c]) =>
                 \A n \in DOMAIN Report(c) :
                     /\ n \in DOMAIN heap'[status[c]]
                     /\ heap'[status[c]][n] = Report(c)[n]]_vars

C9_Witness ==
    \E c \in Callers :
        /\ pc[c] = "returned"
        /\ seen[c]["frontend"] = "refused"
        /\ seen[c]["backend"] = "refused"
        /\ seen[c]["redis"] = "connected"
        /\ attempts[c] = Order
        /\ Report(c)["redis"] = "UP"

(***************************************************************************)
(* C10: a socket is open only between its connection and the end of its    *)
(* with block; at most one is open at a time; none is open when an attempt *)
(* starts, after a failed attempt, or when the call returns; and once the  *)
(* block is left the status of its target is UP.                           *)
(***************************************************************************)
C10_ConnectionsClosed ==
    \A c \in Callers :
        /\ Cardinality(conns[c]) <= 1
        /\ pc[c] \in {"with", "exit"} => conns[c] = {Order[idx[c]]}
        /\ pc[c] \in {"idle", "for", "except", "returned", "raised"} => conns[c] = {}
        /\ pc[c] = "exit" => Report(c)[Order[idx[c]]] = "UP"

C10_Witness ==
    \E c \in Callers :
        /\ pc[c] = "returned"
        /\ \A n \in Names : seen[c][n] = "connected"
        /\ conns[c] = {}

====
